---- MODULE Spec2Model ----
(***************************************************************************)
(* The HTTP client of the frontend (frontend/src/lib/axios.js, the second  *)
(* module of src/frontend/src/App.js, lines 230-348) together with the     *)
(* AuthSession accessors of frontend/src/lib/utils.js.                     *)
(*                                                                         *)
(* One browser tab.  localStorage / sessionStorage are key-value maps, the *)
(* connectivity probe (navigator.onLine), the clock (Date.now()) and the   *)
(* storage quota are driven by the environment.  Each logical request is a *)
(* config object that travels through the request interceptor, the network *)
(* and the response interceptor; a retry re-enters the client with the     *)
(* same config object.                                                     *)
(***************************************************************************)
EXTENDS Integers, Sequences, FiniteSets, TLC

\* ---------------------------------------------------------------- bounds
MaxReqs == 2        \* logical requests issued in one behaviour
MaxNow == 2         \* the clock runs 0..MaxNow, one unit = 12 hours

\* ------------------------------------------------------ program constants
Retries == 3        \* retryConfig.retries
CacheTTL == 2       \* 24 * 60 * 60 * 1000 ms, in units of 12 hours

\* ------------------------------------------------------------ value sets
Reqs == 1..MaxReqs
Urls == {"/dashboard/stats", "/auth/me"}
\* the calls made through the client: method (lower-cased by axios) and url
Calls == {<<"get", "/dashboard/stats">>, <<"post", "/dashboard/stats">>,
          <<"get", "/auth/me">>}
Tokens == {"t1", "t2"}
NULL == "null"                 \* JavaScript null / undefined
NoHeader == "none"             \* header absent from config.headers
NoData == [kind |-> "none"]
\* response bodies as axios hands them over: parsed JSON, or "" for an
\* empty body
Payloads == {[kind |-> "obj", code_submissions |-> 5],
             [kind |-> "str", s |-> ""]}

VARIABLES
    localStorage,      \* window.localStorage: key -> stored string
    sessionStorage,    \* window.sessionStorage of this tab
    mobile,            \* isMobile(): fixed by the user agent
    online,            \* navigator.onLine
    quotaFull,         \* storage rejects setItem (quota exceeded)
    now,               \* Date.now()
    retries,           \* retryConfig.retries, the module-level object
    reqs,              \* the logical requests
    lastGet,           \* history: per url, the last GET answered while online
    lastPut,           \* history: per url, the last cache write storage took
    authCleared,       \* history: clearAuth ran and no token was stored since
    storageDown,       \* every access to window.localStorage throws
    thrown,            \* history: accessors inside which the storage threw
    escaped,           \* history: accessors an exception escaped from
    lastRead,          \* what the last getAuthToken / getUser call returned
    passed,            \* history: the values last handed to the setters
    shell,             \* per tab: AppContent (location, isAuth, what is shown)
    peerStorage        \* window.sessionStorage of the second tab

vars == <<localStorage, sessionStorage, mobile, online, quotaFull, now,
          retries, reqs, lastGet, lastPut, authCleared, storageDown, thrown,
          escaped, lastRead, passed, shell, peerStorage>>

\* storage availability and the accessor calls, which the client never touches
session == <<storageDown, thrown, escaped, lastRead>>

\* the application shell of both tabs, which the client never touches either
browser == <<passed, shell, peerStorage>>

\* ------------------------------------------------------------ Storage API
getItem(store, k) == IF k \in DOMAIN store THEN store[k] ELSE NULL

setItem(store, k, v) ==
    [x \in DOMAIN store \cup {k} |-> IF x = k THEN v ELSE store[x]]

removeItem(store, k) == [x \in DOMAIN store \ {k} |-> store[x]]

\* --------------------------------------------------------------- utils.js
\* setAuthToken: the whole body sits in one try block, so a throwing
\* localStorage.setItem also skips the sessionStorage backup.
\* variant: an empty token leaves the sessionStorage backup in place
setAuthToken_KeepsBackup(ls, ss, token, mob, full) ==
    IF token # NULL
    THEN IF full
         THEN [ls |-> ls, ss |-> ss]
         ELSE [ls |-> setItem(ls, "token", token),
               ss |-> IF mob THEN setItem(ss, "token", token) ELSE ss]
    ELSE [ls |-> removeItem(ls, "token"), ss |-> ss]

setAuthToken(ls, ss, token, mob, full) ==
    IF token # NULL
    THEN IF full
         THEN [ls |-> ls, ss |-> ss]
         ELSE [ls |-> setItem(ls, "token", token),
               ss |-> IF mob THEN setItem(ss, "token", token) ELSE ss]
    ELSE [ls |-> removeItem(ls, "token"), ss |-> removeItem(ss, "token")]

getAuthToken(ls, ss, mob) ==
    LET token == getItem(ls, "token")
    IN  IF token = NULL /\ mob THEN getItem(ss, "token") ELSE token

isAuthenticated(ls, ss, mob) == getAuthToken(ls, ss, mob) # NULL

\* variant: the sessionStorage backup is left in place
clearAuth_LocalOnly(ls, ss) ==
    [ls |-> removeItem(removeItem(ls, "token"), "user"), ss |-> ss]

\* variant: logout wipes both stores
clearAuth_ClearsStore(ls, ss) ==
    [ls |-> [k \in {} |-> NULL], ss |-> [k \in {} |-> NULL]]

clearAuth(ls, ss) ==
    [ls |-> removeItem(removeItem(ls, "token"), "user"),
     ss |-> removeItem(removeItem(ss, "token"), "user")]

\* ------------------------------------------------------------ JSON text
\* The stored string is JSON text; it is kept as a tagged pair so that the
\* store never holds the object itself.
JSONstringify(obj) == <<"json", obj>>

JSONparse(text) == text[2]

\* ------------------------------------------- utils.js: the stored user
Roles == {"student", "job_seeker", "company", "college_admin"}

Users == {[role |-> x] : x \in Roles}

\* JavaScript null where a user object is expected
NullUser == [role |-> NULL]

\* setUser: one try block, as in setAuthToken
setUser(ls, ss, user, mob, full) ==
    IF full
    THEN [ls |-> ls, ss |-> ss]
    ELSE [ls |-> setItem(ls, "user", JSONstringify(user)),
          ss |-> IF mob THEN setItem(ss, "user", JSONstringify(user)) ELSE ss]

getUser(ls, ss, mob) ==
    LET user == IF "user" \notin DOMAIN ls /\ mob /\ "user" \in DOMAIN ss
                THEN ss["user"]
                ELSE getItem(ls, "user")
    IN  IF "user" \in DOMAIN ls \/ (mob /\ "user" \in DOMAIN ss)
        THEN JSONparse(user)
        ELSE NullUser

Accessors == {"setAuthToken", "getAuthToken", "clearAuth", "setUser", "getUser"}

\* the catch block that closes each accessor: whether an exception thrown by
\* the storage inside `accessor` leaves it
\* variant: getUser parses outside its try block
Propagates_GetUserUnguarded(accessor, threw) == threw /\ accessor = "getUser"

Propagates(accessor, threw) == FALSE

\* ------------------------------------------- App.js: the route table
Tabs == {1, 2}

\* the pages wrapped in <ProtectedRoute>
ProtectedPaths ==
    {"/dashboard", "/profile", "/settings", "/tutor", "/coding", "/resume",
     "/interview", "/career-readiness", "/leaderboard", "/learning-path",
     "/roadmap", "/achievements", "/resources"}

RolePaths == {"/company", "/college"}

Paths == {"/", "/auth"} \cup ProtectedPaths \cup RolePaths

Component(path) ==
    CASE path = "/" -> "LandingPage"
      [] path = "/auth" -> "AuthPage"
      [] path = "/dashboard" -> "StudentDashboard"
      [] path = "/profile" -> "ProfilePage"
      [] path = "/settings" -> "SettingsPage"
      [] path = "/tutor" -> "TutorPage"
      [] path = "/coding" -> "CodingArena"
      [] path = "/resume" -> "ResumeAnalyzer"
      [] path = "/interview" -> "MockInterview"
      [] path = "/career-readiness" -> "CareerReadinessPage"
      [] path = "/leaderboard" -> "LeaderboardPage"
      [] path = "/learning-path" -> "LearningPathPage"
      [] path = "/roadmap" -> "Roadmap"
      [] path = "/achievements" -> "AchievementsPage"
      [] path = "/resources" -> "ResourcesPage"
      [] path = "/company" -> "CompanyPortal"
      [] path = "/college" -> "CollegeAdmin"

\* what a route element evaluates to: a page, or <Navigate to=... />
Show(page) == [kind |-> "page", page |-> page, to |-> NULL]

Navigate(to) == [kind |-> "navigate", page |-> "none", to |-> to]

\* variant: the wrapper renders its children whatever the session
ProtectedRoute_Open(authed, children) == children

ProtectedRoute(authed, children) ==
    IF authed THEN children ELSE Navigate("/auth")

\* variant: any stored user passes, whatever the role
RoleProtectedRoute_AnyRole(authed, user, allowedRoles, children) ==
    IF ~authed
    THEN Navigate("/auth")
    ELSE IF user = NullUser THEN Navigate("/dashboard") ELSE children

RoleProtectedRoute(authed, user, allowedRoles, children) ==
    IF ~authed
    THEN Navigate("/auth")
    ELSE IF user = NullUser \/ user.role \notin allowedRoles
         THEN Navigate("/dashboard")
         ELSE children

\* <Routes>: isAuth is the state of AppContent, authed and user are what
\* isAuthenticated() and getUser() return while the element renders
RouteElement(path, isAuth, authed, user) ==
    CASE path = "/" ->
             IF isAuth THEN Navigate("/dashboard") ELSE Show("LandingPage")
      [] path = "/auth" ->
             IF isAuth THEN Navigate("/dashboard") ELSE Show("AuthPage")
      [] path \in ProtectedPaths ->
             ProtectedRoute(authed, Show(Component(path)))
      [] path = "/company" ->
             RoleProtectedRoute(authed, user, {"company"},
                                Show("CompanyPortal"))
      [] path = "/college" ->
             RoleProtectedRoute(authed, user, {"college_admin"},
                                Show("CollegeAdmin"))

\* AuthPage.js: where a successful login or registration navigates to
Landing(role) ==
    IF role = "company" THEN "/company"
    ELSE IF role = "college_admin" THEN "/college"
    ELSE "/dashboard"

\* AppContent of one tab: the location, the isAuth state, the page on screen
\* ("none" while a navigation waits for its render), whether the navigation
\* bar is on screen, whether the pathname changed since the last effect
\* run, whether a storage event waits for its listener, and the last
\* thing that happened in the tab
Mounted(route, isAuth) ==
    [route |-> route, isAuth |-> isAuth, page |-> "none", nav |-> FALSE,
     moved |-> TRUE, event |-> FALSE, last |-> "mount"]

\* ------------------------------------------------- axios.js: the client
isOnline(on) == on

\* config.url.includes("/auth/")
Includes(s, sub) ==
    \E i \in 1..(Len(s) - Len(sub) + 1) : SubSeq(s, i, i + Len(sub) - 1) = sub

IsAuthEndpoint(url) == Includes(url, "/auth/")

\* `${config.method}-${config.url}` and the key it is stored under
CacheKey(method, url) == method \o "-" \o url

StorageKey(cacheKey) == "api-cache-" \o cacheKey

\* what a failed attempt rejects with (an AxiosError carrying the config)
NetError(code) ==
    [code |-> code, hasResponse |-> FALSE, status |-> 0, data |-> NoData,
     hasConfig |-> TRUE, isOfflineCache |-> FALSE, isOffline |-> FALSE,
     message |-> "Network Error"]

HttpError(status) ==
    [code |-> "ERR_BAD_RESPONSE", hasResponse |-> TRUE, status |-> status,
     data |-> NoData, hasConfig |-> TRUE, isOfflineCache |-> FALSE,
     isOffline |-> FALSE, message |-> "Request failed"]

Failures == {NetError("NETWORK_ERROR"), NetError("TIMEOUT"),
             HttpError(500), HttpError(404)}

\* the two objects the request interceptor rejects with
OfflineCacheError(data) ==
    [code |-> NULL, hasResponse |-> TRUE, status |-> 200, data |-> data,
     hasConfig |-> FALSE, isOfflineCache |-> TRUE, isOffline |-> FALSE,
     message |-> "Offline cached response"]

OfflineError ==
    [code |-> NULL, hasResponse |-> FALSE, status |-> 0, data |-> NoData,
     hasConfig |-> FALSE, isOfflineCache |-> FALSE, isOffline |-> TRUE,
     message |-> "No internet connection and no cached data available"]

\* a DOMException thrown by the storage (SecurityError, QuotaExceededError):
\* no config, no response, none of the interceptor's own marks
StorageError ==
    [code |-> "DOMException", hasResponse |-> FALSE, status |-> 0,
     data |-> NoData, hasConfig |-> FALSE, isOfflineCache |-> FALSE,
     isOffline |-> FALSE, message |-> "The operation is insecure."]

\* variant: every error status counts as transient
retryCondition_ClientErrors(error) ==
    \/ error.code = "NETWORK_ERROR"
    \/ error.code = "TIMEOUT"
    \/ (error.hasResponse /\ error.status >= 400)

retryCondition(error) ==
    \/ error.code = "NETWORK_ERROR"
    \/ error.code = "TIMEOUT"
    \/ (error.hasResponse /\ error.status >= 500)

\* if (token) config.headers.Authorization = `Bearer ${token}`: the header
\* is only ever set, never removed
\* variant: a header already on the config is kept
AttachToken_KeepHeader(config, token) ==
    IF token # NULL /\ config.Authorization = NoHeader
    THEN [config EXCEPT !.Authorization = "Bearer " \o token]
    ELSE config

\* variant: requests to the authentication endpoints get no header
AttachToken_SkipAuthEndpoints(config, token) ==
    IF token # NULL /\ ~IsAuthEndpoint(config.url)
    THEN [config EXCEPT !.Authorization = "Bearer " \o token]
    ELSE config

AttachToken(config, token) ==
    IF token # NULL
    THEN [config EXCEPT !.Authorization = "Bearer " \o token]
    ELSE config

\* Date.now() - parsed.timestamp < 24 * 60 * 60 * 1000
\* variant: an entry of exactly 24 hours still counts as fresh
IsFresh_Inclusive(parsed, t) == t - parsed.timestamp <= CacheTTL

IsFresh(parsed, t) == t - parsed.timestamp < CacheTTL

\* request interceptor, fulfilled handler.  config.retry is set to the
\* shared retryConfig object, whose counter is the variable `retries`.
\* variant: without a usable entry the request goes out to the network
RequestInterceptor_DispatchWithoutCache(config, ls, ss, mob, on, t) ==
    LET c1 == AttachToken(config, getAuthToken(ls, ss, mob))
        key == StorageKey(CacheKey(c1.method, c1.url))
    IN  IF ~isOnline(on) /\ ~IsAuthEndpoint(c1.url)
           /\ key \in DOMAIN ls /\ IsFresh(JSONparse(ls[key]), t)
        THEN [tag |-> "reject", config |-> c1,
              error |-> OfflineCacheError(JSONparse(ls[key]).data)]
        ELSE [tag |-> "config", config |-> c1, error |-> OfflineError]

\* variant: the offline check is applied to every url
RequestInterceptor_NoAuthExemption(config, ls, ss, mob, on, t) ==
    LET c1 == AttachToken(config, getAuthToken(ls, ss, mob))
        key == StorageKey(CacheKey(c1.method, c1.url))
    IN  IF ~isOnline(on)
        THEN IF key \in DOMAIN ls /\ IsFresh(JSONparse(ls[key]), t)
             THEN [tag |-> "reject", config |-> c1,
                   error |-> OfflineCacheError(JSONparse(ls[key]).data)]
             ELSE [tag |-> "reject", config |-> c1, error |-> OfflineError]
        ELSE [tag |-> "config", config |-> c1, error |-> OfflineError]

\* variant: a cached payload is served only while a token is stored
RequestInterceptor_SessionBound(config, ls, ss, mob, on, t) ==
    LET token == getAuthToken(ls, ss, mob)
        c1 == AttachToken(config, token)
        key == StorageKey(CacheKey(c1.method, c1.url))
    IN  IF ~isOnline(on) /\ ~IsAuthEndpoint(c1.url)
        THEN IF token # NULL /\ key \in DOMAIN ls
                /\ IsFresh(JSONparse(ls[key]), t)
             THEN [tag |-> "reject", config |-> c1,
                   error |-> OfflineCacheError(JSONparse(ls[key]).data)]
             ELSE [tag |-> "reject", config |-> c1, error |-> OfflineError]
        ELSE [tag |-> "config", config |-> c1, error |-> OfflineError]

RequestInterceptor(config, ls, ss, mob, on, t) ==
    LET token == getAuthToken(ls, ss, mob)
        c1 == AttachToken(config, token)
        isAuthEndpoint == IsAuthEndpoint(c1.url)
        cacheKey == CacheKey(c1.method, c1.url)
        cached == getItem(ls, StorageKey(cacheKey))
    IN  IF ~isOnline(on) /\ ~isAuthEndpoint
        THEN IF StorageKey(cacheKey) \in DOMAIN ls
                /\ IsFresh(JSONparse(cached), t)
             THEN [tag |-> "reject", config |-> c1,
                   error |-> OfflineCacheError(JSONparse(cached).data)]
             ELSE [tag |-> "reject", config |-> c1, error |-> OfflineError]
        ELSE [tag |-> "config", config |-> c1, error |-> OfflineError]

\* The cache lookup of the request interceptor is not inside a try block:
\* when the storage is down, localStorage.getItem throws out of the handler
\* and the promise chain carries the exception as the rejection.  The token
\* lookup before it went through getAuthToken, which returned null.
InterceptRequest(config, ls, ss, mob, on, t, down) ==
    IF down /\ ~isOnline(on) /\ ~IsAuthEndpoint(config.url)
    THEN [tag |-> "reject", config |-> config, error |-> StorageError]
    ELSE RequestInterceptor(config, ls, ss, mob, on, t)

\* response interceptor, fulfilled handler: the cache write.  The response
\* itself is returned unchanged; a throwing setItem is swallowed.
\* variant: the key is built from the url alone
ResponseFulfilled_KeyWithoutMethod(response, ls, on, full, t) ==
    IF response.config.method = "get" /\ isOnline(on) /\ ~full
    THEN setItem(ls, StorageKey(response.config.url),
                 JSONstringify([data |-> response.data, timestamp |-> t]))
    ELSE ls

\* variant: every successful response is cached, whatever its method
ResponseFulfilled_AnyMethod(response, ls, on, full, t) ==
    IF isOnline(on) /\ ~full
    THEN setItem(ls, StorageKey(CacheKey(response.config.method,
                                         response.config.url)),
                 JSONstringify([data |-> response.data, timestamp |-> t]))
    ELSE ls

\* variant: an existing entry is kept instead of overwritten
ResponseFulfilled_KeepExisting(response, ls, on, full, t) ==
    LET key == StorageKey(CacheKey(response.config.method,
                                   response.config.url))
    IN  IF response.config.method = "get" /\ isOnline(on) /\ ~full
           /\ key \notin DOMAIN ls
        THEN setItem(ls, key,
                     JSONstringify([data |-> response.data, timestamp |-> t]))
        ELSE ls

\* variant: the store is emptied to make room for the new entry
ResponseFulfilled_ClearsStore(response, ls, on, full, t) ==
    IF response.config.method = "get" /\ isOnline(on) /\ ~full
    THEN setItem([k \in {} |-> NULL],
                 StorageKey(CacheKey(response.config.method,
                                     response.config.url)),
                 JSONstringify([data |-> response.data, timestamp |-> t]))
    ELSE ls

\* variant: the probe is not consulted when the response arrives
ResponseFulfilled_IgnoresProbe(response, ls, on, full, t) ==
    IF response.config.method = "get" /\ ~full
    THEN setItem(ls, StorageKey(CacheKey(response.config.method,
                                         response.config.url)),
                 JSONstringify([data |-> response.data, timestamp |-> t]))
    ELSE ls

\* variant: the entry is stamped with the start of the page, not Date.now()
ResponseFulfilled_StampZero(response, ls, on, full, t) ==
    IF response.config.method = "get" /\ isOnline(on) /\ ~full
    THEN setItem(ls, StorageKey(CacheKey(response.config.method,
                                         response.config.url)),
                 JSONstringify([data |-> response.data, timestamp |-> 0]))
    ELSE ls

ResponseFulfilled(response, ls, on, full, t) ==
    IF response.config.method = "get" /\ isOnline(on)
    THEN LET cacheKey == CacheKey(response.config.method, response.config.url)
             cacheData == [data |-> response.data, timestamp |-> t]
         IN  IF full THEN ls
             ELSE setItem(ls, StorageKey(cacheKey), JSONstringify(cacheData))
    ELSE ls

\* response interceptor, fulfilled handler: what it hands to the caller.
\* The try/catch around setItem turns a failed write into a warning, so
\* every path ends in `return response`.
\* variant: the cache write is not guarded, a failed write throws
ResponseFulfilledResult_Unguarded(response, on, full) ==
    IF response.config.method = "get" /\ isOnline(on) /\ full
    THEN [tag |-> "throw", response |-> response, error |-> StorageError]
    ELSE [tag |-> "return", response |-> response, error |-> StorageError]

ResponseFulfilledResult(response, on, full) ==
    [tag |-> "return", response |-> response, error |-> StorageError]

\* response interceptor, rejected handler; n is config.retry.retries
\* variant: the offline rejection is retried like a network error
ResponseRejected_RetryOffline(error, n) ==
    IF error.isOfflineCache
    THEN [tag |-> "resolve", response |-> [data |-> error.data, status |-> error.status]]
    ELSE IF n > 0 /\ (error.isOffline \/ (error.hasConfig /\ retryCondition(error)))
         THEN [tag |-> "retry"]
         ELSE [tag |-> "reject", error |-> error]

\* variant: the counter is not consulted
ResponseRejected_RetryAlways(error, n) ==
    IF error.isOfflineCache
    THEN [tag |-> "resolve", response |-> [data |-> error.data, status |-> error.status]]
    ELSE IF error.hasConfig /\ retryCondition(error)
         THEN [tag |-> "retry"]
         ELSE [tag |-> "reject", error |-> error]

ResponseRejected(error, n) ==
    IF error.isOfflineCache
    THEN [tag |-> "resolve", response |-> [data |-> error.data, status |-> error.status]]
    ELSE IF error.hasConfig /\ n > 0 /\ retryCondition(error)
         THEN [tag |-> "retry"]
         ELSE [tag |-> "reject", error |-> error]

\* ------------------------------------------------------------ the state
\* A logical request: the config object of one axiosInstance(...) call and
\* the promise its caller awaits.  attempts counts the network dispatches of
\* the pending request; cause is the failure a pending retry timer was set
\* for; once the promise settles only method, url and the result are kept.
NoConfig == [method |-> "", url |-> "", Authorization |-> NoHeader]

NoResult == [kind |-> "none"]

NoError == [code |-> NULL]

NewReq == [state |-> "new", config |-> NoConfig, attempts |-> 0,
           cause |-> NoError, result |-> NoResult]

Settled(config, result) ==
    [state |-> "done",
     config |-> [config EXCEPT !.Authorization = NoHeader],
     attempts |-> 0,
     cause |-> NoError,
     result |-> result]

NoGet == [has |-> FALSE, data |-> NoData, at |-> 0, writable |-> FALSE]

\* token: the token that was stored when the entry was written
NoPut == [has |-> FALSE, data |-> NoData, at |-> 0, token |-> NULL]

NoRead == [op |-> "none"]

\* localStorage outlives the page: the tab may start with an entry that an
\* earlier page load cached for GET /dashboard/stats
EarlierEntries ==
    {[k \in {} |-> NULL]} \cup
    {[k \in {StorageKey(CacheKey("get", "/dashboard/stats"))} |->
          JSONstringify([data |-> [kind |-> "obj", code_submissions |-> 5],
                         timestamp |-> 0])]}

Init ==
    /\ localStorage \in EarlierEntries
    /\ sessionStorage = [k \in {} |-> NULL]
    /\ mobile \in BOOLEAN
    /\ online \in BOOLEAN
    /\ quotaFull = FALSE
    /\ now = 0
    /\ retries = Retries
    /\ reqs = [r \in Reqs |-> NewReq]
    /\ lastGet = [u \in Urls |->
          LET key == StorageKey(CacheKey("get", u))
          IN  IF key \in DOMAIN localStorage
              THEN [has |-> TRUE, data |-> JSONparse(localStorage[key]).data,
                    at |-> 0, writable |-> TRUE]
              ELSE NoGet]
    /\ lastPut = [u \in Urls |->
          IF lastGet[u].has
          THEN [has |-> TRUE, data |-> lastGet[u].data, at |-> 0,
                token |-> NULL]
          ELSE NoPut]
    /\ authCleared = FALSE
    /\ storageDown \in BOOLEAN
    /\ storageDown => DOMAIN localStorage = {}
    /\ thrown = {}
    /\ escaped = {}
    /\ lastRead = NoRead
    /\ passed = [token |-> NULL, user |-> NullUser]
    /\ shell = [t \in Tabs |-> Mounted("/", FALSE)]
    /\ peerStorage = [k \in {} |-> NULL]

\* ---------------------------------------------------------- the actions
\* axiosInstance(config): the config passes the request interceptor and is
\* either handed to the network or completed by the rejected handler of the
\* response interceptor (the dispatch step has no rejected handler).
Enter(r, cfg) ==
    LET ri == InterceptRequest(cfg, localStorage, sessionStorage, mobile,
                               online, now, storageDown)
        rr == ResponseRejected(ri.error, retries)
    IN  /\ reqs' = [reqs EXCEPT ![r] =
              IF ri.tag = "config"
              THEN [@ EXCEPT !.state = "flight",
                             !.config = ri.config,
                             !.attempts = @ + 1,
                             !.cause = NoError]
              ELSE IF rr.tag = "retry"
              THEN [@ EXCEPT !.state = "retryWait",
                             !.config = ri.config,
                             !.cause = ri.error]
              ELSE Settled(ri.config,
                           IF rr.tag = "resolve"
                           THEN [kind |-> "resolve",
                                 response |-> rr.response,
                                 fromCache |-> TRUE]
                           ELSE [kind |-> "reject", error |-> ri.error])]
        /\ retries' = IF ri.tag # "config" /\ rr.tag = "retry"
                      THEN retries - 1 ELSE retries
        /\ UNCHANGED <<localStorage, sessionStorage, mobile, online,
                       quotaFull, now, lastGet, lastPut, authCleared,
                       session, browser>>

\* a caller issues a request through the client
Send(r, m, u) ==
    /\ reqs[r].state = "new"
    /\ \A q \in Reqs : q < r => reqs[q].state # "new"
    /\ Enter(r, [method |-> m, url |-> u, Authorization |-> NoHeader])

\* the network answers an attempt with a 2xx response
RespondOk(r, d) ==
    /\ reqs[r].state = "flight"
    /\ LET cfg == reqs[r].config
           response == [config |-> cfg, data |-> d, status |-> 200]
           full == quotaFull \/ storageDown
           out == ResponseFulfilledResult(response, online, full)
       IN  /\ localStorage' = ResponseFulfilled(response, localStorage,
                                                online, full, now)
           /\ reqs' = [reqs EXCEPT ![r] =
                  Settled(cfg,
                          IF out.tag = "return"
                          THEN [kind |-> "resolve",
                                response |-> [data |-> out.response.data,
                                              status |-> out.response.status],
                                fromCache |-> FALSE]
                          ELSE [kind |-> "reject", error |-> out.error])]
           /\ lastGet' = IF cfg.method = "get" /\ online
                         THEN [lastGet EXCEPT ![cfg.url] =
                                  [has |-> TRUE, data |-> d, at |-> now,
                                   writable |-> ~full]]
                         ELSE lastGet
           /\ lastPut' = IF cfg.method = "get" /\ online /\ ~full
                         THEN [lastPut EXCEPT ![cfg.url] =
                                  [has |-> TRUE, data |-> d, at |-> now,
                                   token |-> getAuthToken(localStorage,
                                                 sessionStorage, mobile)]]
                         ELSE lastPut
    /\ UNCHANGED <<sessionStorage, mobile, online, quotaFull, now, retries,
                   authCleared, session, browser>>

\* an attempt fails; the response interceptor retries or gives up
\* variant: the retry is dispatched at once, without the timer
RespondFail_EagerRetry(r, e) ==
    /\ reqs[r].state = "flight"
    /\ LET rr == ResponseRejected(e, retries)
       IN  IF rr.tag = "retry"
           THEN /\ retries' = retries - 1
                /\ reqs' = [reqs EXCEPT ![r].attempts = @ + 1]
           ELSE /\ retries' = retries
                /\ reqs' = [reqs EXCEPT ![r] =
                       Settled(@.config, [kind |-> "reject", error |-> e])]
    /\ UNCHANGED <<localStorage, sessionStorage, mobile, online, quotaFull,
                   now, lastGet, lastPut, authCleared, session, browser>>

RespondFail(r, e) ==
    /\ reqs[r].state = "flight"
    /\ LET rr == ResponseRejected(e, retries)
       IN  IF rr.tag = "retry"
           THEN /\ retries' = retries - 1
                /\ reqs' = [reqs EXCEPT ![r].state = "retryWait",
                                        ![r].cause = e]
           ELSE /\ retries' = retries
                /\ reqs' = [reqs EXCEPT ![r] =
                       Settled(@.config, [kind |-> "reject", error |-> e])]
    /\ UNCHANGED <<localStorage, sessionStorage, mobile, online, quotaFull,
                   now, lastGet, lastPut, authCleared,
                   session, browser>>

\* the retry timer fires: axiosInstance(config) with the same config object
\* variant: the retry is handed to the network without the interceptors
RetryFire_SkipsInterceptor(r) ==
    /\ reqs[r].state = "retryWait"
    /\ reqs' = [reqs EXCEPT ![r].state = "flight",
                            ![r].attempts = @ + 1,
                            ![r].cause = NoError]
    /\ UNCHANGED <<localStorage, sessionStorage, mobile, online, quotaFull,
                   now, retries, lastGet, lastPut, authCleared, session,
                   browser>>

RetryFire(r) ==
    /\ reqs[r].state = "retryWait"
    /\ Enter(r, reqs[r].config)

GoOffline ==
    /\ online
    /\ online' = FALSE
    /\ UNCHANGED <<localStorage, sessionStorage, mobile, quotaFull, now,
                   retries, reqs, lastGet, lastPut, authCleared,
                   session, browser>>

GoOnline ==
    /\ ~online
    /\ online' = TRUE
    /\ UNCHANGED <<localStorage, sessionStorage, mobile, quotaFull, now,
                   retries, reqs, lastGet, lastPut, authCleared,
                   session, browser>>

Tick ==
    /\ now < MaxNow
    /\ now' = now + 1
    /\ UNCHANGED <<localStorage, sessionStorage, mobile, online, quotaFull,
                   retries, reqs, lastGet, lastPut, authCleared,
                   session, browser>>

QuotaFills ==
    /\ ~quotaFull
    /\ quotaFull' = TRUE
    /\ UNCHANGED <<localStorage, sessionStorage, mobile, online, now,
                   retries, reqs, lastGet, lastPut, authCleared,
                   session, browser>>

QuotaFrees ==
    /\ quotaFull
    /\ quotaFull' = FALSE
    /\ UNCHANGED <<localStorage, sessionStorage, mobile, online, now,
                   retries, reqs, lastGet, lastPut, authCleared,
                   session, browser>>

\* a call of `accessor` during which the storage threw or not
Called(accessor, threw) ==
    /\ thrown' = IF threw THEN thrown \cup {accessor} ELSE thrown
    /\ escaped' = IF Propagates(accessor, threw)
                  THEN escaped \cup {accessor} ELSE escaped

SetAuthToken(token) ==
    /\ LET full == quotaFull \/ storageDown
           st == setAuthToken(localStorage, sessionStorage, token, mobile,
                              full)
       IN  /\ localStorage' = st.ls
           /\ sessionStorage' = st.ss
           /\ authCleared' = IF getAuthToken(st.ls, st.ss, mobile) # NULL
                             THEN FALSE ELSE authCleared
           /\ Called("setAuthToken", storageDown \/ (full /\ token # NULL))
           /\ passed' = [passed EXCEPT !.token = token]
    /\ UNCHANGED <<mobile, online, quotaFull, now, retries, reqs, lastGet,
                   lastPut, storageDown, lastRead, shell, peerStorage>>

ClearAuth ==
    /\ LET st == clearAuth(localStorage, sessionStorage)
       IN  /\ localStorage' = st.ls
           /\ sessionStorage' = st.ss
    /\ authCleared' = TRUE
    /\ Called("clearAuth", storageDown)
    /\ passed' = [token |-> NULL, user |-> NullUser]
    /\ UNCHANGED <<mobile, online, quotaFull, now, retries, reqs, lastGet,
                   lastPut, storageDown, lastRead, shell, peerStorage>>

SetUser(user) ==
    /\ LET full == quotaFull \/ storageDown
           st == setUser(localStorage, sessionStorage, user, mobile, full)
       IN  /\ localStorage' = st.ls
           /\ sessionStorage' = st.ss
           /\ Called("setUser", full)
           /\ passed' = [passed EXCEPT !.user = user]
    /\ UNCHANGED <<mobile, online, quotaFull, now, retries, reqs, lastGet,
                   lastPut, authCleared, storageDown, lastRead, shell,
                   peerStorage>>

\* a caller reads the token; the catch block returns null
GetAuthToken ==
    /\ lastRead' = [op |-> "getAuthToken",
                    value |-> IF storageDown THEN NULL
                              ELSE getAuthToken(localStorage, sessionStorage,
                                                mobile)]
    /\ Called("getAuthToken", storageDown)
    /\ UNCHANGED <<localStorage, sessionStorage, mobile, online, quotaFull,
                   now, retries, reqs, lastGet, lastPut, authCleared,
                   storageDown, browser>>

\* a caller reads the user; the catch block returns null
GetUser ==
    /\ lastRead' = [op |-> "getUser",
                    value |-> IF storageDown THEN NullUser
                              ELSE getUser(localStorage, sessionStorage,
                                           mobile)]
    /\ Called("getUser", storageDown)
    /\ UNCHANGED <<localStorage, sessionStorage, mobile, online, quotaFull,
                   now, retries, reqs, lastGet, lastPut, authCleared,
                   storageDown, browser>>

\* ------------------------------------------------- the shell of a tab
TabSession(t) == IF t = 1 THEN sessionStorage ELSE peerStorage

\* both tabs share localStorage; each has its own sessionStorage
TabStores(t, ss) ==
    /\ sessionStorage' = IF t = 1 THEN ss ELSE sessionStorage
    /\ peerStorage' = IF t = 1 THEN peerStorage ELSE ss

\* the tab that made the change (what: "login" or "logout") runs its
\* authChange listener and navigates; the other tab gets a storage event if
\* localStorage changed
ShellAfter(t, what, path, ls, ss) ==
    shell' = [x \in Tabs |->
        IF x = t
        THEN [shell[x] EXCEPT
                 !.isAuth = isAuthenticated(ls, ss, mobile),
                 !.route = path,
                 !.page = IF path = shell[x].route THEN @ ELSE "none",
                 !.moved = @ \/ path # shell[x].route,
                 !.last = what]
        ELSE [shell[x] EXCEPT !.event = @ \/ ls # localStorage,
                              !.last = "peer"]]

\* variant: no isAuth re-check when the pathname changes
Render_NoRecheck(t) ==
    LET s == shell[t]
        authed == isAuthenticated(localStorage, TabSession(t), mobile)
        user == getUser(localStorage, TabSession(t), mobile)
        el == RouteElement(s.route, s.isAuth, authed, user)
    IN  /\ shell' = [shell EXCEPT ![t] =
              [route |-> IF el.kind = "navigate" THEN el.to ELSE s.route,
               isAuth |-> s.isAuth,
               page |-> el.page,
               nav |-> s.isAuth,
               moved |-> el.kind = "navigate" /\ el.to # s.route,
               event |-> s.event,
               last |-> "render"]]
        /\ UNCHANGED <<localStorage, sessionStorage, mobile, online,
                       quotaFull, now, retries, reqs, lastGet, lastPut,
                       authCleared, session, passed, peerStorage>>

\* AppContent renders: the route element is evaluated, then the effects
\* run (the isAuth re-check if the pathname changed, the navigation of a
\* <Navigate>)
Render(t) ==
    LET s == shell[t]
        authed == isAuthenticated(localStorage, TabSession(t), mobile)
        user == getUser(localStorage, TabSession(t), mobile)
        el == RouteElement(s.route, s.isAuth, authed, user)
    IN  /\ shell' = [shell EXCEPT ![t] =
              [route |-> IF el.kind = "navigate" THEN el.to ELSE s.route,
               isAuth |-> IF s.moved THEN authed ELSE s.isAuth,
               page |-> el.page,
               nav |-> s.isAuth,
               moved |-> el.kind = "navigate" /\ el.to # s.route,
               event |-> s.event,
               last |-> "render"]]
        /\ UNCHANGED <<localStorage, sessionStorage, mobile, online,
                       quotaFull, now, retries, reqs, lastGet, lastPut,
                       authCleared, session, passed, peerStorage>>

\* a link or the history moves the tab to another path
Go(t, path) ==
    /\ path # shell[t].route
    /\ shell' = [shell EXCEPT ![t].route = path, ![t].page = "none",
                              ![t].moved = TRUE, ![t].last = "go"]
    /\ UNCHANGED <<localStorage, sessionStorage, mobile, online, quotaFull,
                   now, retries, reqs, lastGet, lastPut, authCleared,
                   session, passed, peerStorage>>

\* handleLogin / handleRegister after the backend accepted the credentials:
\* setAuthToken, setUser, the authChange event, navigate(landing route)
\* variant: the authChange event is dispatched before the session is stored
Login_EventFirst(t, token, user) ==
    /\ shell[t].page = "AuthPage"
    /\ LET full == quotaFull \/ storageDown
           s1 == setAuthToken(localStorage, TabSession(t), token, mobile,
                              full)
           s2 == setUser(s1.ls, s1.ss, user, mobile, full)
       IN  /\ localStorage' = s2.ls
           /\ TabStores(t, s2.ss)
           /\ shell' = [x \in Tabs |->
                 IF x = t
                 THEN [shell[x] EXCEPT
                          !.isAuth = isAuthenticated(localStorage,
                                                     TabSession(t), mobile),
                          !.route = Landing(user.role),
                          !.page = "none",
                          !.moved = TRUE,
                          !.last = "login"]
                 ELSE [shell[x] EXCEPT !.event = @ \/ s2.ls # localStorage,
                                       !.last = "peer"]]
           /\ authCleared' = IF getAuthToken(s2.ls, s2.ss, mobile) # NULL
                             THEN FALSE ELSE authCleared
           /\ thrown' = IF full THEN thrown \cup {"setAuthToken", "setUser"}
                         ELSE thrown
           /\ escaped' = escaped
    /\ passed' = [token |-> token, user |-> user]
    /\ UNCHANGED <<mobile, online, quotaFull, now, retries, reqs, lastGet,
                   lastPut, storageDown, lastRead>>

Login(t, token, user) ==
    /\ shell[t].page = "AuthPage"
    /\ LET full == quotaFull \/ storageDown
           s1 == setAuthToken(localStorage, TabSession(t), token, mobile,
                              full)
           s2 == setUser(s1.ls, s1.ss, user, mobile, full)
       IN  /\ localStorage' = s2.ls
           /\ TabStores(t, s2.ss)
           /\ ShellAfter(t, "login", Landing(user.role), s2.ls, s2.ss)
           /\ authCleared' = IF getAuthToken(s2.ls, s2.ss, mobile) # NULL
                             THEN FALSE ELSE authCleared
           /\ thrown' = IF full THEN thrown \cup {"setAuthToken", "setUser"}
                         ELSE thrown
           /\ escaped' = escaped
                  \cup (IF Propagates("setAuthToken", full)
                        THEN {"setAuthToken"} ELSE {})
                  \cup (IF Propagates("setUser", full)
                        THEN {"setUser"} ELSE {})
    /\ passed' = [token |-> token, user |-> user]
    /\ UNCHANGED <<mobile, online, quotaFull, now, retries, reqs, lastGet,
                   lastPut, storageDown, lastRead>>

\* handleLogout of the navigation bar: clearAuth, the authChange event,
\* navigate("/auth")
Logout(t) ==
    /\ shell[t].nav
    /\ LET st == clearAuth(localStorage, TabSession(t))
       IN  /\ localStorage' = st.ls
           /\ TabStores(t, st.ss)
           /\ ShellAfter(t, "logout", "/auth", st.ls, st.ss)
    /\ authCleared' = TRUE
    /\ Called("clearAuth", storageDown)
    /\ passed' = [token |-> NULL, user |-> NullUser]
    /\ UNCHANGED <<mobile, online, quotaFull, now, retries, reqs, lastGet,
                   lastPut, storageDown, lastRead>>

\* the storage listener of a tab runs after another tab changed localStorage
StorageEvent(t) ==
    /\ shell[t].event
    /\ shell' = [shell EXCEPT
                    ![t].isAuth = isAuthenticated(localStorage, TabSession(t),
                                                  mobile),
                    ![t].event = FALSE,
                    ![t].last = "event"]
    /\ UNCHANGED <<localStorage, sessionStorage, mobile, online, quotaFull,
                   now, retries, reqs, lastGet, lastPut, authCleared,
                   session, passed, peerStorage>>

\* the client and its network, for the given calls, response bodies and
\* failures
Client(calls, bodies, failures) ==
    \/ \E r \in Reqs, c \in calls : Send(r, c[1], c[2])
    \/ \E r \in Reqs, d \in bodies : RespondOk(r, d)
    \/ \E r \in Reqs, e \in failures : RespondFail(r, e)
    \/ \E r \in Reqs : RetryFire(r)
    \/ GoOffline
    \/ GoOnline

\* the client alone, with every kind of failure
NextRetry ==
    \/ Client(Calls, {[kind |-> "str", s |-> ""]}, Failures)

\* the client, the clock and the storage quota: GET and POST to one path,
\* two response bodies; the one transient failure drives the retries
NextCache ==
    \/ Client({c \in Calls : ~IsAuthEndpoint(c[2])}, Payloads,
              {HttpError(500)})
    \/ Tick
    \/ QuotaFills
    \/ QuotaFrees

\* the session accessors around the client: a GET to a non-auth path and to
\* an authentication endpoint, one response body, one transient failure
NextAuth ==
    \/ Client({c \in Calls : c[1] = "get"}, {[kind |-> "str", s |-> ""]},
              {HttpError(500)})
    \/ \E token \in Tokens \cup {NULL} : SetAuthToken(token)
    \/ ClearAuth

Next ==
    \/ Client(Calls, Payloads, Failures)
    \/ Tick
    \/ QuotaFills
    \/ QuotaFrees
    \/ \E token \in Tokens \cup {NULL} : SetAuthToken(token)
    \/ ClearAuth
    \/ \E user \in Users : SetUser(user)
    \/ GetAuthToken
    \/ GetUser
    \/ \E t \in Tabs : Render(t)
    \/ \E t \in Tabs, path \in Paths : Go(t, path)
    \/ \E t \in Tabs, token \in Tokens, user \in Users : Login(t, token, user)
    \/ \E t \in Tabs : Logout(t)
    \/ \E t \in Tabs : StorageEvent(t)

Spec == Init /\ [][Next]_vars

\* the session accessors alone, over a storage that works, is full or is down
NextUtils ==
    \/ \E token \in Tokens \cup {NULL} : SetAuthToken(token)
    \/ ClearAuth
    \/ \E user \in Users : SetUser(user)
    \/ GetAuthToken
    \/ GetUser
    \/ QuotaFills
    \/ QuotaFrees

SpecUtils == Init /\ [][NextUtils]_vars

\* the client next to a session that is stored and cleared (login, logout):
\* GETs of the one cached path, the clock that lets the entry go stale
NextSession ==
    \/ Client({<<"get", "/dashboard/stats">>}, {[kind |-> "str", s |-> ""]},
              {HttpError(500)})
    \/ Tick
    \/ SetAuthToken("t1")
    \/ SetUser([role |-> "student"])
    \/ ClearAuth

InitSession == Init /\ ~storageDown

SpecSession == InitSession /\ [][NextSession]_vars

\* no session is ever stored here, so the user agent makes no difference
InitCache == Init /\ ~mobile /\ ~storageDown

SpecCache == InitCache /\ [][NextCache]_vars

\* a fresh profile: nothing cached by an earlier page load
InitAuth == Init /\ DOMAIN localStorage = {} /\ ~storageDown

SpecAuth == InitAuth /\ [][NextAuth]_vars

SpecRetry == Init /\ [][NextRetry]_vars

\* GETs of the cached path with a transient and a permanent failure, under
\* the scheduling the browser gives: the network answers every attempt that
\* is in flight (with a response, an error or the 30 s timeout of the
\* instance), and a timer that was set fires
NextLive ==
    \/ Client({<<"get", "/dashboard/stats">>}, {[kind |-> "str", s |-> ""]},
              {HttpError(500), HttpError(404)})

Returns(r) ==
    \/ \E d \in Payloads : RespondOk(r, d)
    \/ \E e \in Failures : RespondFail(r, e)

SpecLive ==
    /\ InitCache
    /\ [][NextLive]_vars
    /\ \A r \in Reqs : WF_vars(Returns(r))
    /\ \A r \in Reqs : WF_vars(RetryFire(r))

\* ------------------------------------------------- the shell's slices
\* localStorage as an earlier page load may have left it: a session, a
\* user without a token, a token without a user, or nothing
StoredSessions ==
    {[k \in {} |-> NULL]}
    \cup {[k \in {"token"} |-> "t1"]}
    \cup {[k \in {"user"} |-> JSONstringify(u)] : u \in Users}
    \cup {[k \in {"token", "user"} |->
              IF k = "token" THEN "t1" ELSE JSONstringify(u)] : u \in Users}

\* the paths a tab is opened at or moved to
NavPaths == {"/", "/auth", "/dashboard", "/profile", "/company", "/college"}

\* a page load: AppContent mounts with isAuth = isAuthenticated()
InitShell ==
    /\ localStorage \in StoredSessions
    /\ sessionStorage = [k \in {} |-> NULL]
    /\ peerStorage = [k \in {} |-> NULL]
    /\ mobile \in BOOLEAN
    /\ online = TRUE
    /\ quotaFull = FALSE
    /\ storageDown \in BOOLEAN
    /\ storageDown => DOMAIN localStorage = {}
    /\ now = 0
    /\ retries = Retries
    /\ reqs = [r \in Reqs |-> NewReq]
    /\ lastGet = [u \in Urls |-> NoGet]
    /\ lastPut = [u \in Urls |-> NoPut]
    /\ authCleared = FALSE
    /\ thrown = {}
    /\ escaped = {}
    /\ lastRead = NoRead
    /\ passed = [token |-> getItem(localStorage, "token"),
                 user |-> IF "user" \in DOMAIN localStorage
                          THEN JSONparse(localStorage["user"]) ELSE NullUser]
    /\ \E path \in NavPaths :
          shell = [t \in Tabs |->
                      Mounted(IF t = 1 THEN path ELSE "/",
                              isAuthenticated(localStorage, TabSession(t),
                                              mobile))]

\* one tab: renders, navigation, login, logout, over a storage that may fill
NextShell ==
    \/ Render(1)
    \/ \E path \in NavPaths : Go(1, path)
    \/ \E user \in Users : Login(1, "t1", user)
    \/ Logout(1)
    \/ QuotaFills
    \/ QuotaFrees

SpecShell == InitShell /\ [][NextShell]_vars

\* two tabs of one browser profile: they share localStorage, each has its
\* own sessionStorage, and a change one makes reaches the storage listener
\* of the other
NextTabs ==
    \/ \E t \in Tabs : Render(t)
    \/ \E t \in Tabs, path \in {"/auth", "/dashboard"} : Go(t, path)
    \/ \E t \in Tabs : Login(t, "t1", [role |-> "student"])
    \/ \E t \in Tabs : Logout(t)
    \/ \E t \in Tabs : StorageEvent(t)

SpecTabs == InitShell /\ [][NextTabs]_vars

\* a tab in the middle of its life: any stored session, any route, an isAuth
\* flag that may disagree with the storage (another tab or the client changed
\* it since the last re-check), with or without a re-check pending
InitRedirect ==
    /\ localStorage \in StoredSessions
    /\ sessionStorage = [k \in {} |-> NULL]
    /\ peerStorage = [k \in {} |-> NULL]
    /\ mobile \in BOOLEAN
    /\ online = TRUE
    /\ quotaFull = FALSE
    /\ storageDown = FALSE
    /\ now = 0
    /\ retries = Retries
    /\ reqs = [r \in Reqs |-> NewReq]
    /\ lastGet = [u \in Urls |-> NoGet]
    /\ lastPut = [u \in Urls |-> NoPut]
    /\ authCleared = FALSE
    /\ thrown = {}
    /\ escaped = {}
    /\ lastRead = NoRead
    /\ passed = [token |-> getItem(localStorage, "token"),
                 user |-> IF "user" \in DOMAIN localStorage
                          THEN JSONparse(localStorage["user"]) ELSE NullUser]
    /\ \E path \in Paths, flag \in BOOLEAN, pending \in BOOLEAN :
          shell = [t \in Tabs |->
                      IF t = 1
                      THEN [Mounted(path, flag) EXCEPT !.moved = pending]
                      ELSE Mounted("/", isAuthenticated(localStorage,
                                                        TabSession(t),
                                                        mobile))]

\* nothing but the renders of the tab: React renders again whenever a
\* navigation or a setIsAuth of the last commit changed something
NextRedirect ==
    \/ Render(1)

SpecRedirect ==
    /\ InitRedirect
    /\ [][NextRedirect]_vars
    /\ WF_vars(Render(1))

\* ------------------------------------------------------------ the steps
\* request r passes the request interceptor in this step (first call or retry)
Intercepted(r) ==
    /\ reqs[r].state \in {"new", "retryWait"}
    /\ reqs'[r].state \in {"flight", "done"}

\* the caller issues request r in this step
Issued(r) == reqs[r].state = "new" /\ reqs'[r].state # "new"

\* an attempt of request r goes out to the network in this step
Dispatched(r) == Intercepted(r) /\ reqs'[r].state = "flight"

\* an attempt of request r comes back in this step and settles the promise
Answered(r) == reqs[r].state = "flight" /\ reqs'[r].state = "done"

StoredToken == getAuthToken(localStorage, sessionStorage, mobile)

CachedSuccess(data) ==
    [kind |-> "resolve", response |-> [data |-> data, status |-> 200],
     fromCache |-> TRUE]

OfflineFailure == [kind |-> "reject", error |-> OfflineError]

GetKey(u) == StorageKey(CacheKey("get", u))

\* ----------------------------------------------------------------- C1
\* C1 as stated: an offline GET to a non-auth path, issued less than 24 hours
\* after the last GET to that path that succeeded while online, resolves
\* with status 200 and that GET's payload.
C1_RoundTrip ==
    [][\A r \in Reqs :
          LET u == reqs'[r].config.url
          IN  ( /\ Issued(r)
                /\ ~online
                /\ reqs'[r].config.method = "get"
                /\ ~IsAuthEndpoint(u)
                /\ lastGet[u].has
                /\ now - lastGet[u].at < CacheTTL )
              => reqs'[r].result = CachedSuccess(lastGet[u].data)]_vars

\* C1 amended: the same, provided storage accepted writes when that GET's
\* response arrived; holds for every pass through the interceptor, a retry
\* included.
C1_RoundTripWritable ==
    [][\A r \in Reqs :
          LET u == reqs'[r].config.url
          IN  ( /\ Intercepted(r)
                /\ ~online
                /\ reqs'[r].config.method = "get"
                /\ ~IsAuthEndpoint(u)
                /\ lastGet[u].has
                /\ lastGet[u].writable
                /\ now - lastGet[u].at < CacheTTL )
              => reqs'[r].result = CachedSuccess(lastGet[u].data)]_vars

\* a GET served offline, 12 hours after the response it repeats
C1_Witness ==
    \E r \in Reqs :
        LET u == reqs[r].config.url
        IN  /\ reqs[r].state = "done"
            /\ reqs[r].config.method = "get"
            /\ ~IsAuthEndpoint(u)
            /\ ~online
            /\ lastGet[u].has /\ lastGet[u].writable
            /\ lastGet[u].at = 1 /\ now = 2
            /\ reqs[r].result = CachedSuccess(lastGet[u].data)

\* ----------------------------------------------------------------- C2
\* C2: a request whose every attempt fails with a transient condition has
\* been dispatched exactly 1 + 3 times when the failure reaches the caller.
C2_RetryBound ==
    [][\A r \in Reqs :
          ( /\ Answered(r)
            /\ reqs'[r].result.kind = "reject"
            /\ retryCondition(reqs'[r].result.error) )
          => reqs[r].attempts = 1 + Retries]_vars

C4_NoNonGetEntry ==
    /\ [](\A c \in Calls :
             c[1] # "get" =>
                 StorageKey(CacheKey(c[1], c[2])) \notin DOMAIN localStorage)
    /\ [][\A r \in Reqs :
             (Answered(r) /\ reqs[r].config.method # "get")
             => localStorage' = localStorage]_vars

\* a POST answered with a 2xx response while online
C4_Witness ==
    \E r \in Reqs :
        /\ reqs[r].state = "done"
        /\ reqs[r].config.method = "post"
        /\ reqs[r].result.kind = "resolve"
        /\ ~reqs[r].result.fromCache
        /\ online

\* ----------------------------------------------------------------- C5
\* C5: a request to an authentication endpoint that passes the interceptor
\* is always dispatched, also while offline: never answered from the cache,
\* never rejected with the offline-no-cache condition.
C5_AuthSkipsOffline ==
    [][\A r \in Reqs :
          (Intercepted(r) /\ IsAuthEndpoint(reqs'[r].config.url))
          => /\ reqs'[r].state = "flight"
             /\ reqs'[r].attempts = reqs[r].attempts + 1]_vars

\* offline, with a GET to /auth/me on the network
C5_Witness ==
    /\ ~online
    /\ \E r \in Reqs :
          /\ reqs[r].state = "flight"
          /\ IsAuthEndpoint(reqs[r].config.url)
          /\ \A q \in Reqs : q # r => reqs[q].state = "new"

C7_NoHeaderAfterClear ==
    /\ [](authCleared => StoredToken = NULL)
    /\ [][\A r \in Reqs :
             (Dispatched(r) /\ authCleared)
             => reqs'[r].config.Authorization = NoHeader]_vars

\* ----------------------------------------------------------------- C8
\* C8: every attempt to a non-auth path that goes out while a token is
\* stored, first attempt or retry, carries Authorization: Bearer <that token>.
C8_BearerAttached ==
    [][\A r \in Reqs :
          ( /\ Dispatched(r)
            /\ StoredToken # NULL
            /\ ~IsAuthEndpoint(reqs'[r].config.url) )
          => reqs'[r].config.Authorization = "Bearer " \o StoredToken]_vars

\* a retry on the network that carries the stored token
C8_Witness ==
    \E r \in Reqs :
        /\ reqs[r].state = "flight"
        /\ reqs[r].attempts >= 2
        /\ ~IsAuthEndpoint(reqs[r].config.url)
        /\ StoredToken # NULL
        /\ reqs[r].config.Authorization = "Bearer " \o StoredToken

\* ----------------------------------------------------------------- C9
\* C9 as stated: an attempt to an authentication endpoint goes out without
\* an Authorization header, also when a token is stored.
C9_NoHeaderOnAuthEndpoint ==
    [][\A r \in Reqs :
          (Dispatched(r) /\ IsAuthEndpoint(reqs'[r].config.url))
          => reqs'[r].config.Authorization = NoHeader]_vars

\* C9 amended: an attempt to an authentication endpoint that goes out while
\* a token is stored carries Authorization: Bearer <that token>, like any
\* other request; the endpoints are exempt from offline interception only.
C9_BearerOnAuthEndpoint ==
    [][\A r \in Reqs :
          ( /\ Dispatched(r)
            /\ StoredToken # NULL
            /\ IsAuthEndpoint(reqs'[r].config.url) )
          => reqs'[r].config.Authorization = "Bearer " \o StoredToken]_vars

\* offline, a first attempt to /auth/me on the network with the stored token
C9_Witness ==
    /\ ~online
    /\ \E r \in Reqs :
          /\ reqs[r].state = "flight"
          /\ reqs[r].attempts = 1
          /\ IsAuthEndpoint(reqs[r].config.url)
          /\ StoredToken # NULL
          /\ reqs[r].config.Authorization = "Bearer " \o StoredToken

C11_WriteFailureSwallowed ==
    [][\A r \in Reqs :
          ( /\ Answered(r)
            /\ reqs[r].config.method = "get"
            /\ online
            /\ quotaFull
            /\ ~( /\ reqs'[r].result.kind = "reject"
                  /\ reqs'[r].result.error \in Failures ) )
          => LET u == reqs[r].config.url
             IN  /\ reqs'[r].result =
                        [kind |-> "resolve",
                         response |-> [data |-> lastGet'[u].data,
                                       status |-> 200],
                         fromCache |-> FALSE]
                 /\ lastGet'[u].has /\ ~lastGet'[u].writable
                 /\ lastGet'[u].at = now
                 /\ localStorage' = localStorage]_vars

\* a GET was answered while storage was full: the caller has the new payload
\* and the store still holds the older entry with the other payload
C11_Witness ==
    \E r \in Reqs :
        LET u == reqs[r].config.url
        IN  /\ reqs[r].state = "done"
            /\ reqs[r].config.method = "get"
            /\ quotaFull
            /\ lastGet[u].has /\ ~lastGet[u].writable
            /\ reqs[r].result =
                   [kind |-> "resolve",
                    response |-> [data |-> lastGet[u].data, status |-> 200],
                    fromCache |-> FALSE]
            /\ lastPut[u].has
            /\ lastPut[u].data # lastGet[u].data
            /\ JSONparse(localStorage[GetKey(u)]).data = lastPut[u].data

\* ---------------------------------------------------------------- C12
\* C12 as stated: a storage error raised while the client reads a cache
\* entry for an offline request is caught where it is raised; no request is
\* ever rejected with the storage exception.
C12_StorageErrorCaught ==
    \A r \in Reqs :
        reqs[r].state = "done" /\ reqs[r].result.kind = "reject"
        => reqs[r].result.error # StorageError

SessionKeys(store) ==
    [k \in {"token", "user"} \cap DOMAIN store |-> store[k]]

\* C14: every step of the client (a send, an answer of the network, a retry
\* being scheduled or fired, whatever its outcome) leaves the token and user
\* keys of localStorage and sessionStorage as they were.
C14_ClientKeepsSession ==
    [][(\E r \in Reqs : reqs'[r] # reqs[r])
       => /\ SessionKeys(localStorage') = SessionKeys(localStorage)
          /\ SessionKeys(sessionStorage') = SessionKeys(sessionStorage)]_vars

\* with a token and a user stored, one GET was answered by the network and
\* cached in the same store, and another was answered from that entry
C14_Witness ==
    /\ DOMAIN SessionKeys(localStorage) = {"token", "user"}
    /\ GetKey("/dashboard/stats") \in DOMAIN localStorage
    /\ lastPut["/dashboard/stats"].at > 0
    /\ \E r, q \in Reqs :
          /\ reqs[r].state = "done"
          /\ reqs[r].result.kind = "resolve"
          /\ ~reqs[r].result.fromCache
          /\ reqs[q].state = "done"
          /\ reqs[q].result = CachedSuccess(lastPut["/dashboard/stats"].data)

\* ---------------------------------------------------------------- C17
IsCacheKey(k) == Len(k) >= 10 /\ SubSeq(k, 1, 10) = "api-cache-"

CachedKeys(store) == {k \in DOMAIN store : IsCacheKey(k)}

\* C17: no step (of the client, of the accessors, of the clock) removes an
\* api-cache-* key from localStorage: the set of cached keys only grows or
\* stays the same.
C17_CacheNeverShrinks ==
    [][CachedKeys(localStorage) \subseteq CachedKeys(localStorage')]_vars

\* the entry is still stored after it went stale, an offline GET found it
\* stale, another GET failed after its retries, and clearAuth ran
C17_Witness ==
    LET key == GetKey("/dashboard/stats")
    IN  /\ key \in CachedKeys(localStorage)
        /\ ~IsFresh(JSONparse(localStorage[key]), now)
        /\ authCleared
        /\ \E r, q \in Reqs :
              /\ reqs[r].state = "done"
              /\ reqs[r].result = OfflineFailure
              /\ reqs[q].state = "done"
              /\ reqs[q].result = [kind |-> "reject", error |-> HttpError(500)]

\* ---------------------------------------------------------------- C15
\* C15: the attempts of one request are strictly sequential.  An attempt is
\* dispatched only while no attempt of that request is in flight, one at a
\* time; a retry is dispatched only by the timer that the failure of the
\* previous attempt has set, and that timer is set only by a transient
\* failure of the attempt in flight, which itself dispatches nothing.
C15_SequentialRetries ==
    [][\A r \in Reqs :
          /\ reqs'[r].attempts > reqs[r].attempts
             => /\ reqs'[r].attempts = reqs[r].attempts + 1
                /\ reqs[r].state \in {"new", "retryWait"}
                /\ reqs'[r].state = "flight"
                /\ reqs[r].attempts >= 1
                   => /\ reqs[r].state = "retryWait"
                      /\ reqs[r].cause \in Failures
                      /\ retryCondition(reqs[r].cause)
          /\ reqs'[r].state = "retryWait" /\ reqs[r].state # "retryWait"
             => /\ reqs[r].state = "flight"
                /\ reqs'[r].attempts = reqs[r].attempts
                /\ reqs'[r].cause \in Failures
          /\ reqs[r].state = "flight" => reqs[r].attempts >= 1]_vars

\* the third attempt of one request is in flight after two failed attempts
\* while another request waits for its retry timer
C15_Witness ==
    \E r, q \in Reqs :
        /\ reqs[r].state = "flight"
        /\ reqs[r].attempts = 3
        /\ reqs[q].state = "retryWait"
        /\ reqs[q].attempts = 1
        /\ reqs[q].cause = NetError("TIMEOUT")

\* ---------------------------------------------------------------- C16
\* C16: every request that was sent settles, resolved or rejected, given
\* that each attempt in flight is answered and each retry timer fires; the
\* number of retries still to come is finite and only falls; and a failure
\* that arrives when no retry is left settles the request with that failure.
C16_Completes ==
    /\ \A r \in Reqs :
          reqs[r].state \in {"flight", "retryWait"} ~> reqs[r].state = "done"
    /\ [](retries \in 0..Retries)
    /\ [][/\ retries' <= retries
          /\ \A r \in Reqs :
                /\ reqs[r].state = "flight" /\ retries = 0
                   /\ reqs'[r] # reqs[r]
                   => /\ reqs'[r].state = "done"
                      /\ reqs'[r].result.kind = "reject"
                         => reqs'[r].result.error \in Failures
                /\ reqs[r].state = "done" => reqs'[r] = reqs[r]]_vars

\* the retries are used up and a request was rejected with the 500 that its
\* last attempt received
C16_Witness ==
    /\ retries = 0
    /\ \E r \in Reqs :
          /\ reqs[r].state = "done"
          /\ reqs[r].result = [kind |-> "reject", error |-> HttpError(500)]

\* ---------------------------------------------------------------- C18
\* a response of the backend with a status below 500
NonTransient(error) == error.hasResponse /\ error.status < 500

RetrySucceeds(r) ==
    /\ Answered(r)
    /\ reqs[r].attempts >= 2
    /\ reqs'[r].result.kind = "resolve"

\* what the caller of r gets: the network's response, payload `data`
NetworkSuccess(data) ==
    [kind |-> "resolve", response |-> [data |-> data, status |-> 200],
     fromCache |-> FALSE]

\* C19 as stated: when a retry of a request is answered with a 2xx response
\* the request resolves with that response and is not dispatched again, and
\* for a GET answered while online the cache entry holds that response.
C19_RetrySuccessCached ==
    [][\A r \in Reqs :
          /\ RetrySucceeds(r)
             => /\ \E d \in Payloads : reqs'[r].result = NetworkSuccess(d)
                /\ reqs[r].config.method = "get" /\ online
                   => /\ GetKey(reqs[r].config.url) \in DOMAIN localStorage'
                      /\ JSONparse(localStorage'[GetKey(reqs[r].config.url)])
                           = [data |-> reqs'[r].result.response.data,
                              timestamp |-> now]
          /\ reqs[r].state = "done" => reqs'[r] = reqs[r]]_vars

\* C19: when a retry of a request is answered with a 2xx response the
\* request resolves with that response and is not dispatched again; for a
\* GET answered while online the cache entry holds that response and the
\* time of the answer if storage accepts the write, and localStorage is
\* left as it was if storage is full.
C19_RetrySuccessCachedIfWritable ==
    [][\A r \in Reqs :
          /\ RetrySucceeds(r)
             => /\ \E d \in Payloads : reqs'[r].result = NetworkSuccess(d)
                /\ reqs[r].config.method = "get" /\ online /\ ~quotaFull
                   => /\ GetKey(reqs[r].config.url) \in DOMAIN localStorage'
                      /\ JSONparse(localStorage'[GetKey(reqs[r].config.url)])
                           = [data |-> reqs'[r].result.response.data,
                              timestamp |-> now]
                /\ reqs[r].config.method = "get" /\ online /\ quotaFull
                   => localStorage' = localStorage
                /\ reqs[r].config.method # "get" \/ ~online
                   => localStorage' = localStorage
          /\ reqs[r].state = "done" => reqs'[r] = reqs[r]]_vars

\* the only request sent so far failed twice, its third attempt succeeded
\* after time had passed, and the entry holds that payload and that time
C19_Witness ==
    \E r \in Reqs :
        LET u == reqs[r].config.url
        IN  /\ retries = Retries - 2
            /\ \A q \in Reqs \ {r} : reqs[q].state = "new"
            /\ reqs[r].state = "done"
            /\ reqs[r].config.method = "get"
            /\ reqs[r].result = NetworkSuccess([kind |-> "obj",
                                                code_submissions |-> 5])
            /\ now > 0
            /\ JSONparse(localStorage[GetKey(u)]) =
                   [data |-> reqs[r].result.response.data, timestamp |-> now]

\* ---------------------------------------------------------------- C20
\* request r enters the interceptor offline, for a non-auth path, with no
\* fresh entry under its key
EntersOfflineUncached(r) ==
    /\ reqs[r].state \in {"new", "retryWait"}
    /\ reqs'[r] # reqs[r]
    /\ ~online
    /\ ~IsAuthEndpoint(reqs'[r].config.url)
    /\ LET key == StorageKey(CacheKey(reqs'[r].config.method,
                                      reqs'[r].config.url))
       IN  key \in DOMAIN localStorage
           => ~IsFresh(JSONparse(localStorage[key]), now)

\* C20: the offline-no-cache failure is fail-fast.  The step in which the
\* request enters the interceptor settles it with the offline failure, sets
\* no retry timer, dispatches nothing and leaves the shared retry counter,
\* and with it every other request, as it was.
C20_OfflineFailFast ==
    [][\A r \in Reqs :
          EntersOfflineUncached(r)
          => /\ reqs'[r].state = "done"
             /\ reqs'[r].result = OfflineFailure
             /\ retries' = retries
             /\ \A q \in Reqs \ {r} : reqs'[q] = reqs[q]]_vars

\* a request was rejected offline while another waits for its retry, and the
\* counter still shows the one retry that the other request took
C20_Witness ==
    \E r, q \in Reqs :
        /\ reqs[r].state = "done"
        /\ reqs[r].result = OfflineFailure
        /\ reqs[q].state = "retryWait"
        /\ q < r
        /\ retries = Retries - 1

\* ---------------------------------------------------------------- C21
\* AppContent of tab t renders in this step
Rendered(t) ==
    /\ shell'[t].last = "render"
    /\ shell[t].last # "render" \/ shell'[t] # shell[t]

ProtectedPages == {Component(path) : path \in ProtectedPaths \cup RolePaths}

\* C21: a render puts a page of a protected path on screen only if
\* getAuthToken() returns a token during that render; a render at a
\* protected path without a token shows no page and moves the tab to /auth.
C21_ProtectedNeedsToken ==
    [][\A t \in Tabs :
          Rendered(t)
          => LET token == getAuthToken(localStorage, TabSession(t), mobile)
             IN  /\ shell'[t].page \in ProtectedPages => token # NULL
                 /\ shell[t].route \in ProtectedPaths \cup RolePaths
                    /\ token = NULL
                    => /\ shell'[t].page = "none"
                       /\ shell'[t].route = "/auth"]_vars

\* after a logout the tab was moved to a protected path and the render has
\* just sent it to /auth: no page is on screen
C21_Witness ==
    /\ authCleared
    /\ StoredToken = NULL
    /\ shell[1].last = "render"
    /\ shell[1].route = "/auth"
    /\ shell[1].page = "none"

\* ---------------------------------------------------------------- C22
\* the role a role-gated path asks for
RoleOf(path) == IF path = "/company" THEN "company" ELSE "college_admin"

\* C22: a render at /company or /college shows the portal of that path
\* exactly when a token is stored and the stored user has the path's role;
\* with a token and no user, or a user of another role, it shows no page
\* and moves the tab to /dashboard; without a token it moves it to /auth.
\* CompanyPortal and CollegeAdmin are put on screen by no other render.
C22_RoleGating ==
    [][\A t \in Tabs :
          Rendered(t)
          => LET authed == isAuthenticated(localStorage, TabSession(t),
                                           mobile)
                 user == getUser(localStorage, TabSession(t), mobile)
                 path == shell[t].route
             IN  /\ path \in RolePaths /\ ~authed
                    => shell'[t].page = "none" /\ shell'[t].route = "/auth"
                 /\ path \in RolePaths /\ authed /\ user.role # RoleOf(path)
                    => /\ shell'[t].page = "none"
                       /\ shell'[t].route = "/dashboard"
                 /\ path \in RolePaths /\ authed /\ user.role = RoleOf(path)
                    => /\ shell'[t].page = Component(path)
                       /\ shell'[t].route = path
                 /\ shell'[t].page \in {"CompanyPortal", "CollegeAdmin"}
                    => path \in RolePaths]_vars

\* a render at /college has put CollegeAdmin on screen for a stored
\* college_admin
C22_Witness ==
    /\ shell[1].last = "render"
    /\ shell[1].route = "/college"
    /\ shell[1].page = "CollegeAdmin"
    /\ StoredToken # NULL
    /\ getUser(localStorage, sessionStorage, mobile).role = "college_admin"

\* ---------------------------------------------------------------- C23
\* handleLogin / handleRegister of tab t runs in this step
LoggedIn(t) == shell'[t].last = "login" /\ shell[t].last # "login"

\* the landing route the claim names for a role
LandingOf(role) ==
    CASE role = "company" -> "/company"
      [] role = "college_admin" -> "/college"
      [] OTHER -> "/dashboard"

\* the token and the user handed to the setters are what the tab reads back
Persisted(ls, ss) ==
    /\ getAuthToken(ls, ss, mobile) = passed'.token
    /\ getUser(ls, ss, mobile) = passed'.user

\* C23 as stated: a successful login or registration leaves the token and
\* the user stored when the authChange listener runs (isAuth becomes true)
\* and when the tab navigates to the landing route of the role, and the
\* render that follows shows the page of that route.
C23_LoginLands ==
    [][\A t \in Tabs :
          /\ LoggedIn(t)
             => /\ Persisted(localStorage', IF t = 1 THEN sessionStorage'
                                            ELSE peerStorage')
                /\ shell'[t].isAuth
                /\ shell'[t].route = LandingOf(passed'.user.role)
          /\ Rendered(t) /\ shell[t].last = "login"
             => /\ shell'[t].route = LandingOf(passed.user.role)
                /\ shell'[t].page = Component(shell'[t].route)]_vars

\* C23: when the storage accepts the writes, a successful login or
\* registration leaves the token and the user stored when the authChange
\* listener runs (isAuth becomes true) and when the tab navigates to the
\* landing route of the role, and the render that follows shows the page of
\* that route.  The tab navigates to the landing route in any case.
C23_LoginLandsIfStored ==
    [][\A t \in Tabs :
          /\ LoggedIn(t)
             => /\ shell'[t].route = LandingOf(passed'.user.role)
                /\ ~quotaFull /\ ~storageDown
                   => /\ Persisted(localStorage',
                                   IF t = 1 THEN sessionStorage'
                                   ELSE peerStorage')
                      /\ shell'[t].isAuth
          /\ Rendered(t) /\ shell[t].last = "login"
             /\ getAuthToken(localStorage, TabSession(t), mobile)
                    = passed.token
             /\ getUser(localStorage, TabSession(t), mobile) = passed.user
             => /\ shell'[t].route = LandingOf(passed.user.role)
                /\ shell'[t].page = Component(shell'[t].route)
                /\ shell'[t].isAuth]_vars

\* a company user has logged in on a mobile browser (the backup copy in
\* sessionStorage is written by nothing else) and CompanyPortal is on screen
C23_Witness ==
    /\ shell[1].last = "render"
    /\ shell[1].page = "CompanyPortal"
    /\ shell[1].isAuth
    /\ mobile
    /\ "token" \in DOMAIN sessionStorage
    /\ passed = [token |-> "t1", user |-> [role |-> "company"]]
    /\ StoredToken = "t1"
    /\ getUser(localStorage, sessionStorage, mobile) = passed.user
    /\ ~authCleared

\* ---------------------------------------------------------------- C24
\* C24: as long as the storage has not thrown inside a setter or clearAuth,
\* getAuthToken() returns the token last passed to setAuthToken (nothing
\* after an empty token or clearAuth, never an older token),
\* isAuthenticated() tells whether that is a token, and getUser() returns
\* the user last passed to setUser (nothing after clearAuth).
C24_AccessorRoundTrip ==
    thrown \cap {"setAuthToken", "setUser", "clearAuth"} = {}
    => /\ getAuthToken(localStorage, sessionStorage, mobile) = passed.token
       /\ isAuthenticated(localStorage, sessionStorage, mobile)
             <=> passed.token # NULL
       /\ getUser(localStorage, sessionStorage, mobile) = passed.user

\* getAuthToken() once returned t1; since then setAuthToken("t2") replaced
\* it and a company user was stored, on a mobile browser
C24_Witness ==
    /\ thrown = {}
    /\ mobile
    /\ lastRead = [op |-> "getAuthToken", value |-> "t1"]
    /\ passed = [token |-> "t2", user |-> [role |-> "company"]]
    /\ getAuthToken(localStorage, sessionStorage, mobile) = "t2"
    /\ sessionStorage["token"] = "t2"
    /\ getUser(localStorage, sessionStorage, mobile) = [role |-> "company"]

\* ---------------------------------------------------------------- C25
\* handleLogout of tab t runs in this step
LoggedOut(t) == shell'[t].last = "logout" /\ shell[t].last # "logout"

\* C25: handleLogout leaves no token and no user in localStorage and in the
\* tab's sessionStorage; the authChange listener that runs after it sets
\* isAuth to false and the tab is moved to /auth; the render that follows
\* shows AuthPage at /auth, without the navigation bar.
C25_LogoutOrder ==
    [][\A t \in Tabs :
          /\ LoggedOut(t)
             => LET ss == IF t = 1 THEN sessionStorage' ELSE peerStorage'
                IN  /\ DOMAIN SessionKeys(localStorage') = {}
                    /\ DOMAIN SessionKeys(ss) = {}
                    /\ ~shell'[t].isAuth
                    /\ shell'[t].route = "/auth"
          /\ Rendered(t) /\ shell[t].last = "logout"
             => /\ shell'[t].route = "/auth"
                /\ shell'[t].page = "AuthPage"
                /\ ~shell'[t].nav
                /\ ~shell'[t].isAuth]_vars

\* after a logout on a mobile browser AuthPage is on screen without the
\* navigation bar and both stores are empty of the session
C25_Witness ==
    /\ shell[1].last = "render"
    /\ shell[1].page = "AuthPage"
    /\ ~shell[1].nav
    /\ ~shell[1].isAuth
    /\ authCleared
    /\ mobile
    /\ passed = [token |-> NULL, user |-> NullUser]
    /\ DOMAIN SessionKeys(localStorage) = {}
    /\ DOMAIN SessionKeys(sessionStorage) = {}

\* ---------------------------------------------------------------- C26
\* localStorage with the session replaced: token tok (or none), user usr
\* (or none), every other key as it is
WithSession(ls, tok, usr) ==
    [k \in (DOMAIN ls \ {"token", "user"})
           \cup (IF tok = NULL THEN {} ELSE {"token"})
           \cup (IF usr = NullUser THEN {} ELSE {"user"}) |->
        IF k = "token" THEN tok
        ELSE IF k = "user" THEN JSONstringify(usr)
        ELSE ls[k]]

\* how the client settles a request that enters it now with the given stores
OfflineOutcome(method, url, ls, ss) ==
    LET ri == RequestInterceptor([method |-> method, url |-> url,
                                  Authorization |-> NoHeader],
                                 ls, ss, mobile, online, now)
    IN  [tag |-> ri.tag, error |-> ri.error]

\* C26: the result of an offline GET to a non-auth path is a function of the
\* cache entry and the clock alone.  It is the payload of the entry if the
\* entry is fresh and the offline failure otherwise, and it would be the
\* same with any other token and user in the stores, or none.
C26_CacheIgnoresSession ==
    [][\A r \in Reqs :
          ( /\ Intercepted(r)
            /\ ~online
            /\ reqs'[r].config.method = "get"
            /\ ~IsAuthEndpoint(reqs'[r].config.url) )
          => LET u == reqs'[r].config.url
                 key == GetKey(u)
                 here == OfflineOutcome("get", u, localStorage,
                                        sessionStorage)
             IN  /\ reqs'[r].state = "done"
                 /\ reqs'[r].result =
                       IF key \in DOMAIN localStorage
                          /\ IsFresh(JSONparse(localStorage[key]), now)
                       THEN CachedSuccess(JSONparse(localStorage[key]).data)
                       ELSE OfflineFailure
                 /\ \A tok \in Tokens \cup {NULL},
                       usr \in {NullUser, [role |-> "company"]} :
                       \A ss \in {[k \in {} |-> NULL], sessionStorage} :
                          OfflineOutcome("get", u,
                                         WithSession(localStorage, tok, usr),
                                         ss) = here]_vars

\* an entry written while token t1 was stored was served to an offline GET
\* after clearAuth, with no token stored
C26_Witness ==
    \E r \in Reqs :
        LET u == reqs[r].config.url
        IN  /\ reqs[r].state = "done"
            /\ lastPut[u].has
            /\ lastPut[u].token = "t1"
            /\ reqs[r].result = CachedSuccess(lastPut[u].data)
            /\ authCleared
            /\ StoredToken = NULL
            /\ ~online

C28_WriteNeedsOnlineAtArrival ==
    [][\A r \in Reqs :
          Answered(r) /\ ~online
          => /\ localStorage' = localStorage
             /\ lastPut' = lastPut
             /\ reqs'[r].result.kind = "resolve"
                => \E d \in Payloads : reqs'[r].result = NetworkSuccess(d)]_vars

\* offline now: a GET of /dashboard/stats, which can only have gone out
\* while online, and a GET of /auth/me were both answered with a 2xx
\* response and neither has an entry
C28_Witness ==
    /\ ~online
    /\ CachedKeys(localStorage) = {}
    /\ \E r, q \in Reqs :
          /\ reqs[r].state = "done"
          /\ reqs[r].config.method = "get"
          /\ reqs[r].config.url = "/dashboard/stats"
          /\ reqs[r].result = NetworkSuccess([kind |-> "str", s |-> ""])
          /\ reqs[q].state = "done"
          /\ reqs[q].config.method = "get"
          /\ reqs[q].config.url = "/auth/me"
          /\ reqs[q].result = NetworkSuccess([kind |-> "str", s |-> ""])

\* ---------------------------------------------------------------- C29
\* tab t shows a page and its last render asked for no navigation
OnPage(t) ==
    /\ shell[t].last = "render"
    /\ shell[t].page # "none"
    /\ ~shell[t].moved
    /\ shell[t].page = Component(shell[t].route)

\* C29: whatever the stored token, the stored user, the isAuth flag (stale
\* or not) and the route, the renders of the tab reach a page and stay on
\* it: no chain of redirects goes on for ever.
C29_RedirectsSettle == <>[]OnPage(1)

\* in the middle of a chain: no token is stored, the flag still says
\* authenticated, and the render of a protected path has just sent the tab
\* to /auth, whose element will send it on to /dashboard
C29_Witness ==
    /\ getAuthToken(localStorage, sessionStorage, mobile) = NULL
    /\ shell[1].isAuth
    /\ shell[1].last = "render"
    /\ shell[1].moved
    /\ shell[1].route = "/auth"
    /\ shell[1].page = "none"

\* ---------------------------------------------------------------- C30
\* C30: once handleLogout has run clearAuth in one tab, isAuthenticated()
\* is false in every other tab, on any user agent, and the storage listener
\* of another tab that runs while no session is stored leaves that tab
\* with isAuth false.
C30_LogoutSeenEverywhere ==
    [][\A t \in Tabs :
          /\ LoggedOut(t)
             => \A x \in Tabs \ {t} :
                   ~isAuthenticated(localStorage', TabSession(x)', mobile)
          /\ (shell'[t].last = "event" /\ shell[t].last # "event"
              /\ getItem(localStorage, "token") = NULL)
             => ~shell'[t].isAuth]_vars

====
